---- MODULE Spec2Model ----
(***************************************************************************)
(* Model of tableauserverclient/models/project_item.py: the ProjectItem    *)
(* record, its validated setters, the deferred permission accessors, the   *)
(* value merge (_set_values) and the XML codec (from_response, from_xml,   *)
(* _parse_element, _parse_common_tags).                                    *)
(*                                                                         *)
(* Python values are encoded as follows.  A str is the sequence of its     *)
(* characters, so "" is <<>>.  An Optional value is a sequence of length   *)
(* at most one: None is <<>> and the value v is <<v>>.                     *)
(***************************************************************************)
EXTENDS Naturals, Sequences, FiniteSets

VARIABLES item, op, ret, err, resp, injected

vars == <<item, op, ret, err, resp, injected>>

-----------------------------------------------------------------------------
(* Bounds *)

\* Default-permission attributes of one item that are populated.
MaxPopulate == 1
\* Elements below the root of a response document, and their nesting depth.
MaxNodes == 3

-----------------------------------------------------------------------------
(* Python values *)

None == <<>>
Some(v) == <<v>>

\* Python truthiness of an Optional[str]: None and "" are falsy.
Truthy(x) == x # None /\ Len(x[1]) > 0

UpperChars == <<"A","B","C","D","E","F","G","H","I","J","K","L","M",
                "N","O","P","Q","R","S","T","U","V","W","X","Y","Z">>
LowerChars == <<"a","b","c","d","e","f","g","h","i","j","k","l","m",
                "n","o","p","q","r","s","t","u","v","w","x","y","z">>

\* The lower-case letter of each upper-case letter.
LowerOf ==
    [c \in {UpperChars[i] : i \in 1..Len(UpperChars)} |->
        LowerChars[CHOOSE i \in 1..Len(UpperChars) : UpperChars[i] = c]]

LowerChar(c) == IF c \in DOMAIN LowerOf THEN LowerOf[c] ELSE c

\* str.lower()
Lower(s) == [i \in 1..Len(s) |-> LowerChar(s[i])]

\* String literals of the source.
S_default == <<"d","e","f","a","u","l","t">>
LockedToProject == <<"L","o","c","k","e","d","T","o","P","r","o","j","e","c","t">>
ManagedByOwner == <<"M","a","n","a","g","e","d","B","y","O","w","n","e","r">>
LockedToProjectWithoutNested ==
    LockedToProject \o <<"W","i","t","h","o","u","t","N","e","s","t","e","d">>

ContentPermissions == {LockedToProject, ManagedByOwner, LockedToProjectWithoutNested}

\* The nine default-permission attributes, named by their content type.
workbook == <<"w","o","r","k","b","o","o","k">>
datasource == <<"d","a","t","a","s","o","u","r","c","e">>
flow == <<"f","l","o","w">>
lens == <<"l","e","n","s">>
datarole == <<"d","a","t","a","r","o","l","e">>
metric == <<"m","e","t","r","i","c">>
virtualconnection == <<"v","i","r","t","u","a","l","c","o","n","n","e","c","t","i","o","n">>
database == <<"d","a","t","a","b","a","s","e">>
table == <<"t","a","b","l","e">>

Categories == {workbook, datasource, flow, lens, datarole, metric,
               virtualconnection, database, table}

\* Outcomes of an operation.
OK == "ok"
ValidationError == "ValidationError"
UnpopulatedPropertyError == "UnpopulatedPropertyError"
AttributeError == "AttributeError"
ValueError == "ValueError"
TypeError == "TypeError"

NoRet == [kind |-> "none"]
RetBool(b) == [kind |-> "bool", val |-> b]
RetItem(it) == [kind |-> "item", val |-> it]
RetList(l) == [kind |-> "list", val |-> l]
RetTuple(t) == [kind |-> "tuple", val |-> t]
RetPerms(p) == [kind |-> "permissions", val |-> p]

Op(name, args) == [name |-> name, args |-> args]

-----------------------------------------------------------------------------
(* ProjectItem *)

\* property_is_enum(ContentPermissions): the value passes when it is unset or
\* a member of the closed enumeration.
property_is_enum(value) == value = None \/ value[1] \in ContentPermissions

\* The object __init__ builds once the content_permissions setter has accepted
\* its argument.
NewItem(name, description, content_permissions, parent_id, samples) ==
    [ id |-> None,
      name |-> name,
      description |-> description,
      content_permissions |-> content_permissions,
      parent_id |-> parent_id,
      samples |-> samples,
      owner_id |-> None,
      permissions |-> None,
      default_permissions |-> [c \in Categories |-> None],
      other_attrs |-> {} ]

\* The ghost of a fresh item: no population call has injected anything.
NoInjection == [c \in Categories |-> None]

\* item = ProjectItem(name, description, content_permissions, parent_id, samples)
Construct(name, description, content_permissions, parent_id, samples) ==
    /\ op' = Op("__init__", <<name, description, content_permissions, parent_id, samples>>)
    /\ ret' = NoRet
    /\ IF property_is_enum(content_permissions)
       THEN /\ item' = NewItem(name, description, content_permissions, parent_id, samples)
            /\ injected' = NoInjection
            /\ err' = OK
       ELSE /\ err' = ValidationError
            /\ UNCHANGED <<item, injected>>
    /\ UNCHANGED resp

\* The setter without its property_is_enum decorator.
SetContentPermissions_Undecorated(value) ==
    /\ op' = Op("content_permissions", <<value>>)
    /\ ret' = NoRet
    /\ err' = OK
    /\ item' = [item EXCEPT !.content_permissions = value]
    /\ UNCHANGED <<resp, injected>>

\* item.content_permissions = value
SetContentPermissions(value) ==
    /\ op' = Op("content_permissions", <<value>>)
    /\ ret' = NoRet
    /\ IF property_is_enum(value)
       THEN /\ item' = [item EXCEPT !.content_permissions = value]
            /\ err' = OK
       ELSE /\ err' = ValidationError
            /\ UNCHANGED item
    /\ UNCHANGED <<resp, injected>>

\* item.name = value
SetName(value) ==
    /\ op' = Op("name", <<value>>)
    /\ ret' = NoRet
    /\ err' = OK
    /\ item' = [item EXCEPT !.name = value]
    /\ UNCHANGED <<resp, injected>>

\* item.owner_id = value
SetOwnerId(value) ==
    /\ op' = Op("owner_id", <<value>>)
    /\ ret' = NoRet
    /\ err' = OK
    /\ item' = [item EXCEPT !.owner_id = value]
    /\ UNCHANGED <<resp, injected>>

\* item.description = value (a plain attribute)
SetDescription(value) ==
    /\ op' = Op("description", <<value>>)
    /\ ret' = NoRet
    /\ err' = OK
    /\ item' = [item EXCEPT !.description = value]
    /\ UNCHANGED <<resp, injected>>

\* item.parent_id = value (a plain attribute)
SetParentId(value) ==
    /\ op' = Op("parent_id", <<value>>)
    /\ ret' = NoRet
    /\ err' = OK
    /\ item' = [item EXCEPT !.parent_id = value]
    /\ UNCHANGED <<resp, injected>>

\* item.is_default(): self.name.lower() == "default"; None has no lower().
is_default(it) ==
    IF it.name = None
    THEN [err |-> AttributeError, ret |-> NoRet]
    ELSE [err |-> OK, ret |-> RetBool(Lower(it.name[1]) = S_default)]

IsDefault ==
    /\ op' = Op("is_default", <<>>)
    /\ ret' = is_default(item).ret
    /\ err' = is_default(item).err
    /\ UNCHANGED <<item, resp, injected>>

\* _set_values testing name against None, as it tests project_id, so that an
\* empty incoming name overwrites.
set_values_NameNotNone(it, project_id, name, description, content_permissions, parent_id, owner_id) ==
    LET a == IF project_id # None THEN [it EXCEPT !.id = project_id] ELSE it
        b == IF name # None THEN [a EXCEPT !.name = name] ELSE a
        c == IF Truthy(description) THEN [b EXCEPT !.description = description] ELSE b
        d == IF Truthy(content_permissions)
             THEN [c EXCEPT !.content_permissions = content_permissions] ELSE c
        e == IF Truthy(parent_id) THEN [d EXCEPT !.parent_id = parent_id] ELSE d
    IN  IF Truthy(owner_id) THEN [e EXCEPT !.owner_id = owner_id] ELSE e

\* _set_values assigning the id without testing it against None.
set_values_IdUnconditional(it, project_id, name, description, content_permissions, parent_id, owner_id) ==
    LET a == [it EXCEPT !.id = project_id]
        b == IF Truthy(name) THEN [a EXCEPT !.name = name] ELSE a
        c == IF Truthy(description) THEN [b EXCEPT !.description = description] ELSE b
        d == IF Truthy(content_permissions)
             THEN [c EXCEPT !.content_permissions = content_permissions] ELSE c
        e == IF Truthy(parent_id) THEN [d EXCEPT !.parent_id = parent_id] ELSE d
    IN  IF Truthy(owner_id) THEN [e EXCEPT !.owner_id = owner_id] ELSE e

\* The state of an item after _set_values(project_id, ..., owner_id).
set_values(it, project_id, name, description, content_permissions, parent_id, owner_id) ==
    LET a == IF project_id # None THEN [it EXCEPT !.id = project_id] ELSE it
        b == IF Truthy(name) THEN [a EXCEPT !.name = name] ELSE a
        c == IF Truthy(description) THEN [b EXCEPT !.description = description] ELSE b
        d == IF Truthy(content_permissions)
             THEN [c EXCEPT !.content_permissions = content_permissions] ELSE c
        e == IF Truthy(parent_id) THEN [d EXCEPT !.parent_id = parent_id] ELSE d
    IN  IF Truthy(owner_id) THEN [e EXCEPT !.owner_id = owner_id] ELSE e

\* item._set_values(project_id, name, description, content_permissions,
\*                  parent_id, owner_id)
SetValues(project_id, name, description, content_permissions, parent_id, owner_id) ==
    /\ op' = Op("_set_values",
                <<project_id, name, description, content_permissions, parent_id, owner_id>>)
    /\ ret' = NoRet
    /\ err' = OK
    /\ item' = set_values(item, project_id, name, description,
                          content_permissions, parent_id, owner_id)
    /\ UNCHANGED <<resp, injected>>


-----------------------------------------------------------------------------
(* Deferred permissions *)

S__default_ == <<"_","d","e","f","a","u","l","t","_">>
S__permissions == <<"_","p","e","r","m","i","s","s","i","o","n","s">>

\* A permission provider is a zero-argument callable; calling it yields the
\* rules it was built to fetch.
Providers == {"provider1", "provider2"}
Call(provider) == <<"rules of", provider>>

\* item._set_permissions(permissions)
SetPermissions(permissions) ==
    /\ op' = Op("_set_permissions", <<permissions>>)
    /\ ret' = NoRet
    /\ err' = OK
    /\ item' = [item EXCEPT !.permissions = Some(permissions)]
    /\ UNCHANGED <<resp, injected>>

\* attr = f"_default_{content_type}_permissions".lower()
default_attr(content_type) == Lower(S__default_ \o content_type \o S__permissions)

\* The attribute each accessor reads.
AttrOf == [c \in Categories |-> S__default_ \o c \o S__permissions]

\* _set_default_permissions storing into one fixed attribute whatever the
\* content type.
set_default_permissions_FixedAttr(it, permissions, content_type) ==
    [it EXCEPT !.default_permissions[workbook] = Some(permissions)]

\* setattr(self, attr, permissions): the attribute is one of the nine the
\* accessors read, or another attribute (other_attrs) that no accessor reads.
set_default_permissions(it, permissions, content_type) ==
    LET attr == default_attr(content_type)
    IN  IF \E c \in Categories : AttrOf[c] = attr
        THEN [it EXCEPT !.default_permissions[CHOOSE c \in Categories : AttrOf[c] = attr] =
                            Some(permissions)]
        ELSE [it EXCEPT !.other_attrs =
                  {a \in @ : a[1] # attr} \cup {<<attr, permissions>>}]

\* The default-permission attributes of an item that hold a provider.
Populated(it) ==
    {AttrOf[c] : c \in {k \in Categories : it.default_permissions[k] # None}}
        \cup {a[1] : a \in it.other_attrs}

\* item._set_default_permissions(permissions, content_type)
SetDefaultPermissions(permissions, content_type) ==
    LET attr == default_attr(content_type)
        populated == Lower(content_type)
    IN  /\ Cardinality(Populated(item) \cup {attr}) <= MaxPopulate
        /\ op' = Op("_set_default_permissions", <<permissions, content_type>>)
        /\ ret' = NoRet
        /\ err' = OK
        /\ item' = set_default_permissions(item, permissions, content_type)
        /\ injected' = IF populated \in Categories
                       THEN [injected EXCEPT ![populated] = Some(permissions)]
                       ELSE injected
        /\ UNCHANGED resp

\* The body shared by the accessors: raise when the slot is None, otherwise
\* call the stored provider.
deferred(slot) ==
    IF slot = None
    THEN [err |-> UnpopulatedPropertyError, ret |-> NoRet]
    ELSE [err |-> OK, ret |-> RetPerms(Call(slot[1]))]

\* item.permissions
permissions(it) == deferred(it.permissions)

\* item.default_<category>_permissions, one property per category.
default_datasource_permissions(it) == deferred(it.default_permissions[datasource])
default_workbook_permissions(it) == deferred(it.default_permissions[workbook])
default_flow_permissions(it) == deferred(it.default_permissions[flow])
default_lens_permissions(it) == deferred(it.default_permissions[lens])
default_datarole_permissions(it) == deferred(it.default_permissions[datarole])
default_metric_permissions(it) == deferred(it.default_permissions[metric])
default_virtualconnection_permissions(it) ==
    deferred(it.default_permissions[virtualconnection])
default_database_permissions(it) == deferred(it.default_permissions[database])
default_table_permissions(it) == deferred(it.default_permissions[table])

default_permissions(it, c) ==
    CASE c = datasource -> default_datasource_permissions(it)
      [] c = workbook -> default_workbook_permissions(it)
      [] c = flow -> default_flow_permissions(it)
      [] c = lens -> default_lens_permissions(it)
      [] c = datarole -> default_datarole_permissions(it)
      [] c = metric -> default_metric_permissions(it)
      [] c = virtualconnection -> default_virtualconnection_permissions(it)
      [] c = database -> default_database_permissions(it)
      [] c = table -> default_table_permissions(it)

ReadPermissions ==
    /\ op' = Op("permissions", <<>>)
    /\ ret' = permissions(item).ret
    /\ err' = permissions(item).err
    /\ UNCHANGED <<item, resp, injected>>

ReadDefaultPermissions(c) ==
    /\ op' = Op("default_permissions", <<c>>)
    /\ ret' = default_permissions(item, c).ret
    /\ err' = default_permissions(item, c).err
    /\ UNCHANGED <<item, resp, injected>>


-----------------------------------------------------------------------------
(* XML documents *)

\* A document is the sequence of its elements in document order, each with
\* its tag, its nesting depth (the root has depth 0) and its attributes.
\* The prefix t is the fixed namespace of the REST API; x is any other.
T_tsResponse == "t:tsResponse"
T_project == "t:project"
T_owner == "t:owner"
X_project == "x:project"

Attrs(id, name, description, contentPermissions, parentProjectId) ==
    [ id |-> id, name |-> name, description |-> description,
      contentPermissions |-> contentPermissions, parentProjectId |-> parentProjectId ]

Node(tag, depth, attrs) == [tag |-> tag, depth |-> depth, attrs |-> attrs]

\* The immediate children of element i, in document order.
RECURSIVE children_from(_, _, _)
children_from(doc, i, j) ==
    IF j > Len(doc) \/ doc[j].depth <= doc[i].depth
    THEN <<>>
    ELSE IF doc[j].depth = doc[i].depth + 1
         THEN <<j>> \o children_from(doc, i, j + 1)
         ELSE children_from(doc, i, j + 1)

Children(doc, i) == children_from(doc, i, i + 1)

\* The strict descendants of element i, in document order.
RECURSIVE descendants_from(_, _, _)
descendants_from(doc, i, j) ==
    IF j > Len(doc) \/ doc[j].depth <= doc[i].depth
    THEN <<>>
    ELSE <<j>> \o descendants_from(doc, i, j + 1)

Descendants(doc, i) == descendants_from(doc, i, i + 1)

\* findall("t:project"): the immediate children with that tag only.
findall_project_ChildrenOnly(doc, i) ==
    SelectSeq(Children(doc, i), LAMBDA j : doc[j].tag = T_project)

\* element.findall(".//t:project", namespaces=ns): the descendants of the
\* element (never the element itself) with that tag, in document order.
findall_project(doc, i) == SelectSeq(Descendants(doc, i), LAMBDA j : doc[j].tag = T_project)

\* element.find(".//t:project", namespaces=ns): the first match, or None.
find_project(doc, i) ==
    IF findall_project(doc, i) = <<>> THEN None ELSE Some(Head(findall_project(doc, i)))

\* for owner in project_xml: owner_id = owner.get("id", None)
RECURSIVE owner_loop(_, _, _, _)
owner_loop(doc, kids, k, owner_id) ==
    IF k > Len(kids)
    THEN owner_id
    ELSE owner_loop(doc, kids, k + 1, doc[kids[k]].attrs.id)

\* ProjectItem._parse_element(project_xml), project_xml being element i.
parse_element(doc, i) ==
    << doc[i].attrs.id,
       doc[i].attrs.name,
       doc[i].attrs.description,
       doc[i].attrs.contentPermissions,
       doc[i].attrs.parentProjectId,
       owner_loop(doc, Children(doc, i), 1, None) >>

\* ProjectItem.from_xml(project_xml): cls() and then
\* _set_values(*cls._parse_element(project_xml)).
from_xml(doc, i) ==
    LET t == parse_element(doc, i)
    IN  set_values(NewItem(None, None, None, None, None), t[1], t[2], t[3], t[4], t[5], t[6])

\* ProjectItem.from_response(resp, ns)
from_response(doc) ==
    LET all_project_xml == findall_project(doc, 1)
    IN  [k \in 1..Len(all_project_xml) |-> from_xml(doc, all_project_xml[k])]

\* t = ProjectItem._parse_element(element i of doc)
ParseElement(doc, i) ==
    /\ op' = Op("_parse_element", <<i>>)
    /\ ret' = RetTuple(parse_element(doc, i))
    /\ err' = OK
    /\ UNCHANGED <<item, resp, injected>>

\* item = ProjectItem.from_xml(element i of doc)
FromXml(doc, i) ==
    /\ op' = Op("from_xml", <<i>>)
    /\ ret' = NoRet
    /\ err' = OK
    /\ item' = from_xml(doc, i)
    /\ injected' = NoInjection
    /\ UNCHANGED resp

\* items = ProjectItem.from_response(doc, ns)
FromResponse(doc) ==
    /\ op' = Op("from_response", <<>>)
    /\ ret' = RetList(from_response(doc))
    /\ err' = OK
    /\ UNCHANGED <<item, resp, injected>>


\* _parse_common_tags unpacks the result of _parse_element into this many
\* targets, passes this many arguments to _set_values, which takes that many.
UnpackTargets == 5
SetValuesArguments == 5
SetValuesParameters == 6

\* item._parse_common_tags(project_xml, ns).  project_xml is an Element
\* (element i of doc) or the bytes of a response (doc), in which case the
\* first t:project below the root is looked up.
parse_common_tags(it, project_xml) ==
    LET doc == project_xml.doc
        found == IF project_xml.is_element
                 THEN Some(project_xml.i)
                 ELSE find_project(doc, 1)
    IN  IF found = None
        THEN [err |-> OK, item |-> it, ret |-> RetItem(it)]
        ELSE LET t == parse_element(doc, found[1])
             IN  IF Len(t) # UnpackTargets
                 THEN [err |-> ValueError, item |-> it, ret |-> NoRet]
                 ELSE IF SetValuesArguments # SetValuesParameters
                 THEN [err |-> TypeError, item |-> it, ret |-> NoRet]
                 ELSE LET merged == set_values(it, None, t[2], t[3], t[4], t[5], None)
                      IN  [err |-> OK, item |-> merged, ret |-> RetItem(merged)]

\* The call with project_xml element i of doc (is_element) or the bytes of doc.
ParseCommonTags(is_element, doc, i) ==
    LET project_xml == [is_element |-> is_element, doc |-> doc, i |-> i]
        result == parse_common_tags(item, project_xml)
    IN  /\ op' = Op("_parse_common_tags", <<project_xml>>)
        /\ ret' = result.ret
        /\ err' = result.err
        /\ item' = result.item
        /\ UNCHANGED <<resp, injected>>

-----------------------------------------------------------------------------
(* Inputs *)

S_empty == <<>>
S_A == <<"A">>
S_Default == <<"D","e","f","a","u","l","t">>
S_default_space == S_default \o <<" ">>
S_d1 == <<"d","1">>
S_d2 == <<"d","2">>
S_p0 == <<"p","0">>
S_p1 == <<"p","1">>
S_p2 == <<"p","2">>
S_u1 == <<"u","1">>
S_Bogus == <<"B","o","g","u","s">>
S_Workbook == <<"W","o","r","k","b","o","o","k">>
S_view == <<"v","i","e","w">>

Opt(S) == {None} \cup {Some(v) : v \in S}

NoAttrs == Attrs(None, None, None, None, None)
FullAttrs == Attrs(Some(S_p1), Some(S_A), Some(S_d1), Some(LockedToProject), Some(S_p0))
EmptyAttrs ==
    Attrs(Some(S_empty), Some(S_empty), Some(S_empty), Some(S_Bogus), Some(S_empty))
OwnerAttrs == Attrs(Some(S_u1), None, None, None, None)

\* The elements a document is drawn from: its root, and what is below it.
RootKinds == { [tag |-> T_tsResponse, attrs |-> NoAttrs],
               [tag |-> T_project, attrs |-> FullAttrs] }
NodeKinds == { [tag |-> T_project, attrs |-> a] : a \in {NoAttrs, FullAttrs, EmptyAttrs} }
             \cup { [tag |-> T_owner, attrs |-> OwnerAttrs],
                    [tag |-> X_project, attrs |-> FullAttrs] }

\* The documents obtained from d by appending one element, at most one level
\* deeper than the element before it.
Extensions(d) ==
    { Append(d, Node(k.tag, depth, k.attrs)) :
          k \in NodeKinds, depth \in 1..(d[Len(d)].depth + 1) }

RECURSIVE Grow(_, _)
Grow(D, n) == IF n = 0 THEN D ELSE D \cup Grow(UNION {Extensions(d) : d \in D}, n - 1)

Roots == { <<Node(r.tag, 0, r.attrs)>> : r \in RootKinds }

\* Response documents with at most n elements below the root.
Docs(n) == Grow(Roots, n)

Names == Opt({S_empty, S_A, S_Default, S_default_space})
Descriptions == Opt({S_empty, S_d1})
ContentPermissionInputs == Opt(ContentPermissions \cup {S_empty, S_Bogus})
ParentIds == Opt({S_p0})
OwnerIds == Opt({S_u1})
ContentTypes == Categories \cup {S_Workbook, S_view}

BareItem == NewItem(None, None, None, None, None)

\* Three small responses: no project, a project with every attribute and an
\* owner, and a project whose attributes are empty or not in the enumeration.
Response0 == <<Node(T_tsResponse, 0, NoAttrs)>>
Response1 == <<Node(T_tsResponse, 0, NoAttrs), Node(T_project, 1, FullAttrs),
               Node(T_owner, 2, OwnerAttrs)>>
Response2 == <<Node(T_tsResponse, 0, NoAttrs),
               Node(T_project, 1, Attrs(Some(S_p2), Some(S_empty), Some(S_empty),
                                        Some(S_Bogus), Some(S_empty)))>>
Responses == {Response0, Response1, Response2}

\* The project elements of a response, as from_response finds them.
Projects(doc) == {findall_project(doc, 1)[k] : k \in 1..Len(findall_project(doc, 1))}

-----------------------------------------------------------------------------
(* The life of one item: construction, assignments, merges and parsing. *)

Init ==
    /\ item = BareItem
    /\ op = Op("ProjectItem", <<>>)
    /\ ret = NoRet
    /\ err = OK
    /\ resp = Response0
    /\ injected = NoInjection

DoConstruct ==
    \/ \E name \in Opt({S_A, S_Default}), content_permissions \in Opt({ManagedByOwner}),
          rest \in {<<None, None, None>>, <<Some(S_d1), Some(S_p0), Some(TRUE)>>} :
           Construct(name, rest[1], content_permissions, rest[2], rest[3])
    \/ \E content_permissions \in ContentPermissionInputs :
           Construct(None, None, content_permissions, None, None)

DoSetName == \E v \in Names : SetName(v)
DoSetDescription == \E v \in Descriptions : SetDescription(v)
DoSetContentPermissions == \E v \in ContentPermissionInputs : SetContentPermissions(v)
DoSetParentId == \E v \in ParentIds : SetParentId(v)
DoSetOwnerId == \E v \in OwnerIds : SetOwnerId(v)

\* The tuples _parse_element produces for the projects of the responses.
ParsedTuples == UNION { {parse_element(doc, i) : i \in Projects(doc)} : doc \in Responses }

DoSetValues == \E t \in ParsedTuples : SetValues(t[1], t[2], t[3], t[4], t[5], t[6])

DoFromXml == \E doc \in Responses : \E i \in Projects(doc) : FromXml(doc, i)

DoParseCommonTags ==
    \E doc \in Responses :
        \/ ParseCommonTags(FALSE, doc, 1)
        \/ \E i \in Projects(doc) : ParseCommonTags(TRUE, doc, i)

Next ==
    \/ DoConstruct
    \/ DoSetName
    \/ DoSetDescription
    \/ DoSetContentPermissions
    \/ DoSetParentId
    \/ DoSetOwnerId
    \/ IsDefault
    \/ DoSetValues
    \/ DoFromXml
    \/ DoParseCommonTags

Spec == Init /\ [][Next]_vars

-----------------------------------------------------------------------------
(* Deferred permissions: population and access, among the other operations. *)

NextPerms ==
    \/ \E p \in Providers, ct \in ContentTypes : SetDefaultPermissions(p, ct)
    \/ \E p \in Providers : SetPermissions(p)
    \/ ReadPermissions
    \/ \E c \in Categories : ReadDefaultPermissions(c)
    \/ Construct(None, None, None, None, None)
    \/ SetName(Some(S_A))
    \/ SetContentPermissions(Some(LockedToProject))
    \/ \E t \in {parse_element(Response1, 2)} : SetValues(t[1], t[2], t[3], t[4], t[5], t[6])
    \/ FromXml(Response1, 2)
    \/ ParseCommonTags(FALSE, Response1, 1)

SpecPerms == Init /\ [][NextPerms]_vars

-----------------------------------------------------------------------------
(* The codec, applied once to each response document within the bounds. *)

InitParse ==
    /\ item = BareItem
    /\ op = Op("ProjectItem", <<>>)
    /\ ret = NoRet
    /\ err = OK
    /\ resp \in Docs(MaxNodes)
    /\ injected = NoInjection

\* Nothing has been parsed yet.
Unparsed == op.name = "ProjectItem"

NextParse ==
    \/ Unparsed /\ FromResponse(resp)
    \/ Unparsed /\ \E i \in 1..Len(resp) : FromXml(resp, i)
    \/ Unparsed /\ \E i \in 1..Len(resp) : ParseElement(resp, i)

SpecParse == InitParse /\ [][NextParse]_vars


-----------------------------------------------------------------------------
(* The id of one item, under every operation that could touch it. *)

NextId ==
    \/ \E id \in Opt({S_empty, S_p1, S_p2}), name \in Opt({S_A}), owner_id \in OwnerIds :
           SetValues(id, name, None, None, None, owner_id)
    \/ DoFromXml
    \/ DoParseCommonTags
    \/ \E name \in Opt({S_A}) : Construct(name, None, None, None, None)
    \/ SetName(Some(S_Default))
    \/ SetDescription(Some(S_d1))
    \/ SetContentPermissions(Some(ManagedByOwner))
    \/ SetParentId(Some(S_p1))
    \/ SetOwnerId(Some(S_p2))
    \/ SetPermissions("provider1")
    \/ SetDefaultPermissions("provider1", workbook)

SpecId == Init /\ [][NextId]_vars

-----------------------------------------------------------------------------
(* One merge of parsed fields into one existing item. *)

ExistingItems ==
    { [BareItem EXCEPT !.id = id, !.name = name, !.description = description,
                       !.content_permissions = content_permissions,
                       !.parent_id = parent_id, !.owner_id = owner_id] :
          id \in Opt({S_p1}), name \in Opt({S_empty, S_A}),
          description \in Opt({S_empty, S_d1}), content_permissions \in Opt({LockedToProject}),
          parent_id \in Opt({S_p0}), owner_id \in Opt({S_u1}) }

InitMerge ==
    /\ item \in ExistingItems
    /\ op = Op("ProjectItem", <<>>)
    /\ ret = NoRet
    /\ err = OK
    /\ resp = Response0
    /\ injected = NoInjection

NextMerge ==
    /\ op.name = "ProjectItem"
    /\ \E id \in Opt({S_empty, S_p2}), name \in Opt({S_empty, S_Default}),
          description \in Opt({S_empty, S_d2}),
          content_permissions \in Opt({S_empty, ManagedByOwner, S_Bogus}),
          parent_id \in Opt({S_empty, S_p1}), owner_id \in Opt({S_empty, S_p2}) :
           SetValues(id, name, description, content_permissions, parent_id, owner_id)

SpecMerge == InitMerge /\ [][NextMerge]_vars


-----------------------------------------------------------------------------
(* Properties *)

\* The value last handed to the content_permissions setter, by an assignment
\* or by the constructor.
AssignedContentPermissions ==
    IF op.name = "__init__" THEN op.args[3] ELSE op.args[1]

\* C1: an assignment to content_permissions (the constructor's included)
\* succeeds and is reflected by the getter when the value is None or one of
\* LockedToProject, ManagedByOwner, LockedToProjectWithoutNested, and raises
\* a validation error for any other value.
C1_SetterValidates ==
    op.name \in {"content_permissions", "__init__"} =>
        IF \/ AssignedContentPermissions = None
           \/ AssignedContentPermissions \in
                  {Some(LockedToProject), Some(ManagedByOwner),
                   Some(LockedToProjectWithoutNested)}
        THEN err = OK /\ item.content_permissions = AssignedContentPermissions
        ELSE err = ValidationError

C1_Witness ==
    /\ op.name = "content_permissions"
    /\ op.args[1] = Some(LockedToProjectWithoutNested)
    /\ err = OK
    /\ item.content_permissions = Some(LockedToProjectWithoutNested)

C1_WitnessRejected ==
    /\ op.name = "content_permissions"
    /\ op.args[1] = Some(S_Bogus)
    /\ err = ValidationError

\* C2: in every reachable state the content_permissions field is None or one
\* of the three values of the closed enumeration.
C2_ContentPermissionsClosed ==
    \/ item.content_permissions = None
    \/ item.content_permissions \in
           {Some(LockedToProject), Some(ManagedByOwner), Some(LockedToProjectWithoutNested)}

\* C3: for each of the nine categories the accessor raises
\* UnpopulatedPropertyError exactly when no population call for that content
\* type has injected a provider into the item, and otherwise returns what the
\* provider injected last yields; this holds of the accessor's value in every
\* state and of the outcome of every read.
C3_AccessorFollowsPopulation ==
    /\ \A c \in Categories :
          LET read == default_permissions(item, c)
          IN  IF injected[c] = None
              THEN read.err = UnpopulatedPropertyError
              ELSE read.err = OK /\ read.ret = RetPerms(Call(injected[c][1]))
    /\ op.name = "default_permissions" =>
          IF injected[op.args[1]] = None
          THEN err = UnpopulatedPropertyError
          ELSE err = OK /\ ret = RetPerms(Call(injected[op.args[1]][1]))

C3_Witness ==
    /\ op.name = "default_permissions"
    /\ op.args[1] = datarole
    /\ injected[datarole] = Some("provider2")
    /\ err = OK
    /\ ret = RetPerms(Call("provider2"))

\* The merge rule for one field: a present, non-empty incoming value
\* replaces the existing one, an absent or empty one leaves it.
Merged(existing, incoming) ==
    IF incoming # None /\ incoming[1] # S_empty THEN incoming ELSE existing

\* C4: _set_values is a partial update of name, description,
\* content_permissions, parent_id and owner_id: each becomes the incoming
\* value when that is present and non-empty and keeps its value otherwise.
C4_PartialUpdate ==
    [][op'.name = "_set_values" =>
          /\ item'.name = Merged(item.name, op'.args[2])
          /\ item'.description = Merged(item.description, op'.args[3])
          /\ item'.content_permissions = Merged(item.content_permissions, op'.args[4])
          /\ item'.parent_id = Merged(item.parent_id, op'.args[5])
          /\ item'.owner_id = Merged(item.owner_id, op'.args[6])]_vars

\* The example of the claim: name A kept under an empty incoming name,
\* description replaced by d2.
C4_Witness ==
    /\ op.name = "_set_values"
    /\ op.args[2] = Some(S_empty)
    /\ op.args[3] = Some(S_d2)
    /\ item.name = Some(S_A)
    /\ item.description = Some(S_d2)


-----------------------------------------------------------------------------
(* Properties of the codec *)

\* The elements of a document with the tag t:project that are strictly below
\* the root.
RECURSIVE ProjectsFrom(_, _)
ProjectsFrom(doc, i) ==
    IF i > Len(doc)
    THEN <<>>
    ELSE IF doc[i].tag = T_project
         THEN <<i>> \o ProjectsFrom(doc, i + 1)
         ELSE ProjectsFrom(doc, i + 1)

ProjectsBelowRoot(doc) == ProjectsFrom(doc, 2)

\* C5 as stated: from_response returns one item per project element in the
\* response (those below its root), in document order, whose id, name,
\* description, content_permissions and parent_id equal the element's
\* attributes, None standing for an absent attribute.
C5_ItemsEqualAttributes ==
    op.name = "from_response" =>
        /\ Len(ret.val) = Len(ProjectsBelowRoot(resp))
        /\ \A k \in 1..Len(ProjectsBelowRoot(resp)) :
              LET a == resp[ProjectsBelowRoot(resp)[k]].attrs
              IN  /\ ret.val[k].id = a.id
                  /\ ret.val[k].name = a.name
                  /\ ret.val[k].description = a.description
                  /\ ret.val[k].content_permissions = a.contentPermissions
                  /\ ret.val[k].parent_id = a.parentProjectId

\* C5, amended: from_response returns one item per project element strictly
\* below the root, in document order; the item's id is the element's id
\* attribute (None when absent), and its name, description,
\* content_permissions and parent_id are the attribute when it is present and
\* non-empty and None when it is absent or empty.
C5_ItemsFollowAttributes ==
    op.name = "from_response" =>
        /\ Len(ret.val) = Len(ProjectsBelowRoot(resp))
        /\ \A k \in 1..Len(ProjectsBelowRoot(resp)) :
              LET a == resp[ProjectsBelowRoot(resp)[k]].attrs
              IN  /\ ret.val[k].id = a.id
                  /\ ret.val[k].name = Merged(None, a.name)
                  /\ ret.val[k].description = Merged(None, a.description)
                  /\ ret.val[k].content_permissions = Merged(None, a.contentPermissions)
                  /\ ret.val[k].parent_id = Merged(None, a.parentProjectId)
                  /\ ret.val[k].permissions = None
                  /\ ret.val[k].samples = None

\* Two projects, the second nested in the first, the first with empty
\* attributes that its item does not take.
C5_Witness ==
    /\ op.name = "from_response"
    /\ Len(ret.val) = Len(ProjectsBelowRoot(resp))
    /\ Len(ret.val) > 1
    /\ resp[ProjectsBelowRoot(resp)[2]].depth > resp[ProjectsBelowRoot(resp)[1]].depth
    /\ resp[ProjectsBelowRoot(resp)[1]].attrs.name = Some(S_empty)
    /\ ret.val[1].name = None
    /\ ret.val[2].name = Some(S_A)

\* The immediate children of element i, as a set of positions.
ChildSet(doc, i) ==
    { j \in (i + 1)..Len(doc) :
          /\ doc[j].depth = doc[i].depth + 1
          /\ \A k \in (i + 1)..j : doc[k].depth > doc[i].depth }

Max(S) == CHOOSE x \in S : \A y \in S : y <= x
Min(S) == CHOOSE x \in S : \A y \in S : x <= y

\* The id of the first immediate child that carries one, or None.
FirstMatch(doc, i) ==
    LET with_id == { j \in ChildSet(doc, i) : doc[j].attrs.id # None }
    IN  IF with_id = {} THEN None ELSE doc[Min(with_id)].attrs.id

\* The id attribute of the last immediate child, or None.
LastChildId(doc, i) ==
    IF ChildSet(doc, i) = {} THEN None ELSE doc[Max(ChildSet(doc, i))].attrs.id

\* C6: the owner id produced by _parse_element is the id of the first
\* immediate child that carries an id attribute, and None when no child
\* carries one; from_xml gives the item that owner id (when non-empty).
C6_OwnerIsFirstMatch ==
    /\ op.name = "_parse_element" => ret.val[6] = FirstMatch(resp, op.args[1])
    /\ op.name = "from_xml" => item.owner_id = Merged(None, FirstMatch(resp, op.args[1]))

\* What the loop computes: the id attribute of the last immediate child, and
\* None when there is no child or the last child has no id attribute.
OwnerIsLastChild ==
    /\ op.name = "_parse_element" => ret.val[6] = LastChildId(resp, op.args[1])
    /\ op.name = "from_xml" => item.owner_id = Merged(None, LastChildId(resp, op.args[1]))

-----------------------------------------------------------------------------
(* Properties of the item's life *)

\* C7: is_default() never fails and returns a boolean that is true exactly
\* when the item's name, lowercased, is "default".
C7_IsDefaultTotal ==
    op.name = "is_default" =>
        /\ err = OK
        /\ ret = RetBool(item.name # None /\ Lower(item.name[1]) = S_default)

\* The new item an operation leaves in item, rather than the one it found.
NewObject(name) == name \in {"__init__", "from_xml"}

\* C8 as stated: the id is None after construction, and once it holds a
\* value no later operation on the item changes it.
C8_IdImmutable ==
    [][/\ (op'.name = "__init__" /\ err' = OK) => item'.id = None
       /\ (~NewObject(op'.name) /\ item.id # None) => item'.id = item.id]_vars

\* C8, amended: the id is None after construction; an operation on the item
\* changes it only when it is _set_values with an incoming id that is not
\* None, and the id is then that incoming id.  Assignments, permission
\* population, _parse_common_tags and _set_values with incoming id None leave
\* it as it is.
C8_IdChangesOnlyByMerge ==
    [][/\ (op'.name = "__init__" /\ err' = OK) => item'.id = None
       /\ (~NewObject(op'.name) /\ item'.id # item.id) =>
              /\ op'.name = "_set_values"
              /\ op'.args[1] # None
              /\ item'.id = op'.args[1]
       /\ (op'.name = "_set_values" /\ op'.args[1] = None) => item'.id = item.id]_vars

\* A merge with no incoming id on an item that has one.
C8_Witness ==
    /\ op.name = "_set_values"
    /\ op.args[1] = None
    /\ op.args[2] = Some(S_A)
    /\ item.id = Some(S_p2)
    /\ item.permissions # None
    /\ item.default_permissions[workbook] # None

\* C9: the name of an item is a non-empty string in every reachable state,
\* and an assignment of an empty or missing name is rejected.
C9_NameNonEmpty ==
    /\ item.name # None
    /\ item.name # Some(S_empty)
    /\ (op.name = "name" /\ op.args[1] \in {None, Some(S_empty)}) => err # OK

\* The project element _parse_common_tags works on: the element it is given,
\* or the first project below the root of the response it is given.
CommonTagsProject(project_xml) ==
    IF project_xml.is_element
    THEN Some(project_xml.i)
    ELSE IF ProjectsBelowRoot(project_xml.doc) = <<>>
         THEN None
         ELSE Some(ProjectsBelowRoot(project_xml.doc)[1])

\* C10: _parse_common_tags completes without error and returns the item;
\* with a project element it merges name, description, content_permissions
\* and parent_id from the element's attributes under the partial-update rule
\* and leaves id, owner_id and the permission providers unchanged; with no
\* project element it leaves the item entirely unchanged.
C10_CommonTagsMerge ==
    [][op'.name = "_parse_common_tags" =>
          /\ err' = OK
          /\ ret' = RetItem(item')
          /\ IF CommonTagsProject(op'.args[1]) = None
             THEN item' = item
             ELSE LET a == op'.args[1].doc[CommonTagsProject(op'.args[1])[1]].attrs
                  IN  item' = [item EXCEPT
                                  !.name = Merged(@, a.name),
                                  !.description = Merged(@, a.description),
                                  !.content_permissions = Merged(@, a.contentPermissions),
                                  !.parent_id = Merged(@, a.parentProjectId)]]_vars

====
